---- MODULE Spec2Model ----
(***************************************************************************)
(* Model of the background task tracker (src/src/api/task_tracker.py), of  *)
(* the video ingestion endpoints and their background functions            *)
(* (src/src/api/routers/temporal.py, src/src/api/routers/ingest.py) and of *)
(* the per-video loop of YouTubeVideoSource.fetch_video                    *)
(* (src/src/ingest/youtube.py), of the search service                      *)
(* (src/src/rag/temporal_search.py) and of the transcript segmentation     *)
(* (YouTubeVideoSource._process_segments).                                 *)
(*                                                                         *)
(* The specifications share the variables:                                 *)
(*   Spec        any callers issue registry operations on one event loop;  *)
(*               an operation never awaits inside its critical section, so *)
(*               each one is one step.                                     *)
(*   SpecBatch   POST /temporal/ingest-video and its coroutine             *)
(*               process_remaining_videos, on one event loop with the      *)
(*               polling and cleanup requests of other clients.            *)
(*   SpecThreads POST /ingest/video, whose process_remaining_videos is a   *)
(*               plain function: the framework runs it on a worker thread  *)
(*               and it drives the tracker through asyncio.run, next to    *)
(*               the request coroutines of the event-loop thread.          *)
(*   FairThreads SpecThreads with every thread scheduled.                  *)
(*   SpecSearch  one call of search_entities or get_video_timeline on any  *)
(*               store content.                                            *)
(*   SpecSegments one call of _process_segments on any transcript in       *)
(*               timestamp order.                                          *)
(*   SpecCreate  one call of _process_segments with a collaborator of      *)
(*               _create_segment failing for some segments.                *)
(*   SpecIngest  POST /ingest and its background run_ingest_worker.        *)
(*   SpecTimeline one call of get_video_timeline on a store of up to       *)
(*               TimelineK + 1 documents.                                  *)
(***************************************************************************)
EXTENDS Integers, Sequences, FiniteSets, TLC

\* ---------------------------------------------------------------- bounds
\* number of add_task calls in one run
MaxTasks == 2
\* number of clock ticks in one run (one tick = one day)
MaxTime == 1
\* largest `days` argument of cleanup_old_tasks
MaxDays == 1
\* largest `limit` argument of get_all_tasks
MaxLimit == 2
\* most video ids in one ingestion request
MaxVideos == 3
\* most documents the vector store holds
MaxHits == 3
\* largest start_time of a stored segment
MaxStart == 1
\* largest max_results of a search query
MaxResults == 2
\* most entries of a transcript
MaxEntries == 3
\* latest start of a transcript entry, in quarters of a minute
MaxQuarter == 4
\* longest duration of a transcript entry, in seconds
MaxDuration == 1
\* background executions beside the server's event loop
MaxJobs == 1
\* most video ids of one execution on the worker thread
MaxWorkerVideos == 1

\* ---------------------------------------------------------------- values
\* TaskStatus (the enum's values)
PENDING == "pending"
RUNNING == "running"
COMPLETED == "completed"
FAILED == "failed"
CANCELLED == "cancelled"
TaskStatus == {PENDING, RUNNING, COMPLETED, FAILED, CANCELLED}

\* Optional[datetime] = None: a timestamp that is not set
NoTime == -1
\* Optional[str] = None: a text that is not set; a text is a tuple of its parts
NoText == <<>>
\* Optional[int] = None for get_all_tasks' limit
NoLimit == [given |-> FALSE, n |-> 0]
Limit(k) == [given |-> TRUE, n |-> k]

\* ids callers pass to the registry: the ids add_task can hand out and one
\* more, which is never in the registry
TaskIds == 1..(MaxTasks + 1)
Days == 0..MaxDays
Limits == {NoLimit} \cup {Limit(k) : k \in (-1)..MaxLimit}
Commands == {<<"cmd">>}
ErrorTexts == {<<"boom">>}
ProgressTexts == {<<"step">>}

VARIABLES
    tasks,      \* TaskTracker._tasks: the records, in the dict's insertion order
    nextId,     \* the next fresh task id (uuid4 never repeats)
    now,        \* the wall clock datetime.now() reads
    ret,        \* the last call: its name, arguments and return value
    jobs,       \* the executions of process_remaining_videos, in the order queued
    lock,       \* TaskTracker._lock (an asyncio.Lock)
    req         \* the request coroutine of the event loop that is inside the lock

vars == <<tasks, nextId, now, ret, jobs, lock, req>>

\* ---------------------------------------------------------------- records
TaskInfo(id, command, t, metadata) ==
    [task_id |-> id, command |-> command, status |-> PENDING, created_at |-> t,
     started_at |-> NoTime, completed_at |-> NoTime, error_message |-> NoText,
     progress |-> NoText, metadata |-> metadata]

\* task_id in self._tasks
Has(ts, id) == \E i \in 1..Len(ts) : ts[i].task_id = id

\* self._tasks[task_id]
Rec(ts, id) == ts[CHOOSE i \in 1..Len(ts) : ts[i].task_id = id]

Ids(ts) == {ts[i].task_id : i \in 1..Len(ts)}

\* ---------------------------------------------------------------- operations
\* Each operation is given the registry and returns the registry after it and
\* the value it returns.

\* metadata or {}
OrEmpty(metadata) == IF metadata = NoText THEN <<>> ELSE metadata

add_task(ts, id, command, metadata, t) ==
    [tasks |-> Append(ts, TaskInfo(id, command, t, OrEmpty(metadata))), val |-> id]

\* start_task without its `if task_id not in self._tasks: return False`
start_task_unguarded(ts, id, t) ==
    [tasks |-> [i \in 1..Len(ts) |->
                   IF ts[i].task_id = id
                   THEN [ts[i] EXCEPT !.status = RUNNING, !.started_at = t]
                   ELSE ts[i]],
     val |-> TRUE]

start_task(ts, id, t) ==
    IF ~Has(ts, id) THEN [tasks |-> ts, val |-> FALSE]
    ELSE [tasks |-> [i \in 1..Len(ts) |->
                        IF ts[i].task_id = id
                        THEN [ts[i] EXCEPT !.status = RUNNING, !.started_at = t]
                        ELSE ts[i]],
          val |-> TRUE]

complete_task(ts, id, success, error_message, t) ==
    IF ~Has(ts, id) THEN [tasks |-> ts, val |-> FALSE]
    ELSE [tasks |-> [i \in 1..Len(ts) |->
                        IF ts[i].task_id # id THEN ts[i]
                        ELSE IF success
                        THEN [ts[i] EXCEPT !.completed_at = t, !.status = COMPLETED]
                        ELSE [ts[i] EXCEPT !.completed_at = t, !.status = FAILED,
                                           !.error_message = error_message]],
          val |-> TRUE]

update_progress(ts, id, progress) ==
    IF ~Has(ts, id) THEN [tasks |-> ts, val |-> FALSE]
    ELSE [tasks |-> [i \in 1..Len(ts) |->
                        IF ts[i].task_id = id
                        THEN [ts[i] EXCEPT !.progress = progress]
                        ELSE ts[i]],
          val |-> TRUE]

\* self._tasks.get(task_id): a reference to the live record, or None.
\* A returned record is named by its task id; 0 stands for None.
get_task(ts, id) == IF Has(ts, id) THEN id ELSE 0

Min(a, b) == IF a <= b THEN a ELSE b
Max(a, b) == IF a >= b THEN a ELSE b

\* list.sort(key=lambda x: x.created_at, reverse=True) is stable: records with
\* equal keys keep their order. x goes behind every record that is as new.
InsertDesc(s, x) ==
    LET k == Cardinality({i \in 1..Len(s) : s[i].created_at >= x.created_at})
    IN SubSeq(s, 1, k) \o <<x>> \o SubSeq(s, k + 1, Len(s))

RECURSIVE SortDesc(_)
SortDesc(s) ==
    IF s = <<>> THEN <<>>
    ELSE InsertDesc(SortDesc(SubSeq(s, 1, Len(s) - 1)), s[Len(s)])

\* tasks[:limit]
SliceTo(s, n) ==
    IF n >= 0 THEN SubSeq(s, 1, Min(n, Len(s)))
    ELSE SubSeq(s, 1, Max(Len(s) + n, 0))

\* `if limit:` is false for None and for 0
Truthy(limit) == limit.given /\ limit.n # 0

NotDone(t) == t.status \notin {COMPLETED, FAILED}

\* the records it returns are named by their task ids, in the order returned
TaskIdsOf(s) == [i \in 1..Len(s) |-> s[i].task_id]

get_all_tasks(ts, include_completed, limit) ==
    LET kept == IF ~include_completed THEN SelectSeq(ts, NotDone) ELSE ts
        sorted == SortDesc(kept)
    IN TaskIdsOf(IF Truthy(limit) THEN SliceTo(sorted, limit.n) ELSE sorted)

IsRunning(t) == t.status = RUNNING
IsPending(t) == t.status = PENDING
IsCompleted(t) == t.status = COMPLETED
IsFailed(t) == t.status = FAILED

get_running_tasks(ts) == TaskIdsOf(SelectSeq(ts, IsRunning))

get_pending_tasks(ts) == TaskIdsOf(SelectSeq(ts, IsPending))

\* cleanup_old_tasks comparing with <= instead of <
cleanup_old_tasks_inclusive(ts, days, t) ==
    LET cutoff_date == t - days
        Old(r) == r.status \in {COMPLETED, FAILED} /\ r.completed_at <= cutoff_date
        Keep(r) == ~Old(r)
    IN [tasks |-> SelectSeq(ts, Keep), val |-> Len(SelectSeq(ts, Old)),
        raised |-> FALSE]

\* `task.completed_at < cutoff_date` raises TypeError when completed_at is None
\* and, by `and`, is evaluated only for a Completed or Failed record; the
\* comprehension then ends before anything is deleted.
cleanup_old_tasks(ts, days, t) ==
    LET cutoff_date == t - days
        Old(r) == r.status \in {COMPLETED, FAILED} /\ r.completed_at < cutoff_date
        Keep(r) == ~Old(r)
    IN IF \E i \in 1..Len(ts) :
             ts[i].status \in {COMPLETED, FAILED} /\ ts[i].completed_at = NoTime
       THEN [tasks |-> ts, val |-> 0, raised |-> TRUE]
       ELSE [tasks |-> SelectSeq(ts, Keep),
             val |-> Len(SelectSeq(ts, Old)), raised |-> FALSE]

RECURSIVE Gcd(_, _)
Gcd(a, b) == IF b = 0 THEN a ELSE Gcd(b, a % b)

\* a / b * 100 as the fraction it denotes, in lowest terms
Percent(a, b) == LET g == Gcd(a * 100, b) IN <<(a * 100) \div g, b \div g>>

\* get_task_stats taking every finished task, failed ones too, as a success
get_task_stats_done_rate(ts) ==
    LET total_tasks == Len(ts)
        completed_tasks == Len(SelectSeq(ts, IsCompleted))
        failed_tasks == Len(SelectSeq(ts, IsFailed))
    IN [total_tasks |-> total_tasks,
        running_tasks |-> Len(SelectSeq(ts, IsRunning)),
        pending_tasks |-> Len(SelectSeq(ts, IsPending)),
        completed_tasks |-> completed_tasks, failed_tasks |-> failed_tasks,
        success_rate |-> IF total_tasks > 0
                         THEN Percent(completed_tasks + failed_tasks, total_tasks)
                         ELSE <<0, 1>>]

get_task_stats(ts) ==
    LET total_tasks == Len(ts)
        running_tasks == Len(SelectSeq(ts, IsRunning))
        pending_tasks == Len(SelectSeq(ts, IsPending))
        completed_tasks == Len(SelectSeq(ts, IsCompleted))
        failed_tasks == Len(SelectSeq(ts, IsFailed))
    IN [total_tasks |-> total_tasks, running_tasks |-> running_tasks,
        pending_tasks |-> pending_tasks, completed_tasks |-> completed_tasks,
        failed_tasks |-> failed_tasks,
        success_rate |-> IF total_tasks > 0
                         THEN Percent(completed_tasks, total_tasks) ELSE <<0, 1>>]

\* ---------------------------------------------------------------- Spec
\* Registry operations issued by any callers, one step each.

Init ==
    /\ tasks = <<>>
    /\ nextId = 1
    /\ now = 0
    /\ ret = [op |-> "init"]
    /\ jobs = <<>>
    /\ lock = [locked |-> FALSE, loop |-> "none", waiters |-> <<>>, woken |-> {}]
    /\ req = [pc |-> "idle"]

Tick ==
    /\ now < MaxTime
    /\ now' = now + 1
    /\ ret' = [op |-> "tick"]
    /\ UNCHANGED <<tasks, nextId, jobs, lock, req>>

AddTask ==
    /\ nextId <= MaxTasks
    /\ \E command \in Commands :
        LET r == add_task(tasks, nextId, command, NoText, now)
        IN /\ tasks' = r.tasks
           /\ ret' = [op |-> "add_task", val |-> r.val]
    /\ nextId' = nextId + 1
    /\ UNCHANGED <<now, jobs, lock, req>>

StartTask ==
    \E id \in TaskIds :
        LET r == start_task(tasks, id, now)
        IN /\ tasks' = r.tasks
           /\ ret' = [op |-> "start_task", task_id |-> id, val |-> r.val]
           /\ UNCHANGED <<nextId, now, jobs, lock, req>>

CompleteTask ==
    \E id \in TaskIds, success \in BOOLEAN, error_message \in ErrorTexts :
        LET r == complete_task(tasks, id, success, error_message, now)
        IN /\ tasks' = r.tasks
           /\ ret' = [op |-> "complete_task", task_id |-> id, success |-> success,
                      val |-> r.val]
           /\ UNCHANGED <<nextId, now, jobs, lock, req>>

UpdateProgress ==
    \E id \in TaskIds, progress \in ProgressTexts :
        LET r == update_progress(tasks, id, progress)
        IN /\ tasks' = r.tasks
           /\ ret' = [op |-> "update_progress", task_id |-> id, val |-> r.val]
           /\ UNCHANGED <<nextId, now, jobs, lock, req>>

GetTask ==
    \E id \in TaskIds :
        /\ ret' = [op |-> "get_task", task_id |-> id, val |-> get_task(tasks, id)]
        /\ UNCHANGED <<tasks, nextId, now, jobs, lock, req>>

GetAllTasks ==
    \E include_completed \in BOOLEAN, limit \in Limits :
        /\ ret' = [op |-> "get_all_tasks", include_completed |-> include_completed,
                   limit |-> limit,
                   val |-> get_all_tasks(tasks, include_completed, limit)]
        /\ UNCHANGED <<tasks, nextId, now, jobs, lock, req>>

GetRunningTasks ==
    /\ ret' = [op |-> "get_running_tasks", val |-> get_running_tasks(tasks)]
    /\ UNCHANGED <<tasks, nextId, now, jobs, lock, req>>

GetPendingTasks ==
    /\ ret' = [op |-> "get_pending_tasks", val |-> get_pending_tasks(tasks)]
    /\ UNCHANGED <<tasks, nextId, now, jobs, lock, req>>

CleanupOldTasks ==
    \E days \in Days :
        LET r == cleanup_old_tasks(tasks, days, now)
        IN /\ tasks' = r.tasks
           /\ ret' = [op |-> "cleanup_old_tasks", days |-> days, val |-> r.val,
                      raised |-> r.raised]
           /\ UNCHANGED <<nextId, now, jobs, lock, req>>

GetTaskStats ==
    /\ ret' = [op |-> "get_task_stats", val |-> get_task_stats(tasks)]
    /\ UNCHANGED <<tasks, nextId, now, jobs, lock, req>>

Next ==
    \/ Tick
    \/ AddTask
    \/ StartTask
    \/ CompleteTask
    \/ UpdateProgress
    \/ GetTask
    \/ GetAllTasks
    \/ GetRunningTasks
    \/ GetPendingTasks
    \/ CleanupOldTasks
    \/ GetTaskStats

Spec == Init /\ [][Next]_vars

\* ---------------------------------------------------------------- claims on Spec
\* how far along Pending -> Running -> {Completed | Failed} a status is
Rank(status) ==
    IF status = PENDING THEN 0 ELSE IF status = RUNNING THEN 1 ELSE 2

Forward(a, b) == a = b \/ Rank(a) < Rank(b)

\* C1: over any sequence of registry operations a record's status only moves
\* forward along Pending -> Running -> {Completed | Failed}: no step takes a
\* record from Completed or Failed back to Running, from Completed to Failed
\* or from Failed to Completed.
C1_StatusOnlyMovesForward ==
    [][\A i \in 1..Len(tasks) : \A j \in 1..Len(tasks') :
          tasks[i].task_id = tasks'[j].task_id
              => Forward(tasks[i].status, tasks'[j].status)]_vars

\* C2: in every reachable registry state a record's completed_at is set if
\* and only if its status is Completed or Failed.
C2_CompletedAtIffDone ==
    \A i \in 1..Len(tasks) :
        (tasks[i].completed_at # NoTime) <=> (tasks[i].status \in {COMPLETED, FAILED})

\* C3: start_task, update_progress and complete_task called with an id that is
\* not in the registry return False and leave the registry as it was; get_task
\* for such an id returns None.
C3_AbsentIdIsNoOp ==
    [][/\ (/\ ret'.op \in {"start_task", "update_progress", "complete_task"}
           /\ ret'.task_id \notin Ids(tasks))
          => (ret'.val = FALSE /\ tasks' = tasks)
       /\ (/\ ret'.op = "get_task"
           /\ ret'.task_id \notin Ids(tasks))
          => (ret'.val = 0 /\ tasks' = tasks)]_vars

C3_Witness ==
    /\ ret.op = "complete_task"
    /\ ret.task_id \notin Ids(tasks)
    /\ ret.val = FALSE
    /\ \E i \in 1..Len(tasks) : tasks[i].status = RUNNING

\* C5: cleanup_old_tasks(days) removes exactly the Completed and Failed records
\* whose completed_at is earlier than now - days, removes no Pending or Running
\* record, leaves the other records as they were and in their order, and
\* returns the number of records it removed.
C5_CleanupRemovesExactlyOld ==
    [][ret'.op = "cleanup_old_tasks" =>
         LET gone == {id \in Ids(tasks) :
                         /\ Rec(tasks, id).status \in {COMPLETED, FAILED}
                         /\ Rec(tasks, id).completed_at < now - ret'.days}
         IN /\ ~ret'.raised
            /\ Ids(tasks') = Ids(tasks) \ gone
            /\ Len(tasks') = Cardinality(Ids(tasks'))
            /\ \A id \in Ids(tasks') : Rec(tasks', id) = Rec(tasks, id)
            /\ \A i, j \in 1..Len(tasks) : \A k, l \in 1..Len(tasks') :
                  (i < j /\ tasks'[k] = tasks[i] /\ tasks'[l] = tasks[j]) => k < l
            /\ \A id \in Ids(tasks) :
                  Rec(tasks, id).status \in {PENDING, RUNNING} => id \in Ids(tasks')
            /\ ret'.val = Cardinality(gone)]_vars

\* one record old enough went; a Completed one exactly `days` old stayed
C5_Witness ==
    /\ ret.op = "cleanup_old_tasks"
    /\ ret.val = 1
    /\ \E i \in 1..Len(tasks) :
          tasks[i].status = COMPLETED /\ tasks[i].completed_at = now - ret.days

CountWith(status) == Cardinality({i \in 1..Len(tasks) : tasks[i].status = status})

\* C6: get_task_stats reports total = number of records, running, pending,
\* completed and failed = number of records with exactly that status, and
\* success_rate = completed / total * 100, or 0 for an empty registry.
C6_StatsMatchRegistry ==
    ret.op = "get_task_stats" =>
        /\ ret.val.total_tasks = Len(tasks)
        /\ ret.val.running_tasks = CountWith(RUNNING)
        /\ ret.val.pending_tasks = CountWith(PENDING)
        /\ ret.val.completed_tasks = CountWith(COMPLETED)
        /\ ret.val.failed_tasks = CountWith(FAILED)
        /\ Len(tasks) = 0 => ret.val.success_rate = <<0, 1>>
        /\ Len(tasks) > 0 =>
              ret.val.success_rate[1] * Len(tasks)
                  = CountWith(COMPLETED) * 100 * ret.val.success_rate[2]

\* one record, completed: total 1, completed 1, success_rate 100
C6_Witness ==
    /\ ret.op = "get_task_stats"
    /\ ret.val = [total_tasks |-> 1, running_tasks |-> 0, pending_tasks |-> 0,
                  completed_tasks |-> 1, failed_tasks |-> 0,
                  success_rate |-> <<100, 1>>]

\* C7: get_all_tasks(include_completed, limit) returns the records newest
\* created first; without include_completed it returns every record that is
\* neither Completed nor Failed and no other; with a limit L >= 0 it returns
\* exactly the first min(L, n) records of that sequence, with no limit all of it.
C7_GetAllTasksOrderFilterLimit ==
    ret.op = "get_all_tasks" =>
        LET whole == get_all_tasks(tasks, ret.include_completed, NoLimit)
            wanted == {id \in Ids(tasks) :
                          ret.include_completed
                              \/ Rec(tasks, id).status \notin {COMPLETED, FAILED}}
        IN /\ \A i, j \in 1..Len(ret.val) :
                  i < j => Rec(tasks, ret.val[i]).created_at
                               >= Rec(tasks, ret.val[j]).created_at
           /\ ~ret.limit.given =>
                  /\ {ret.val[i] : i \in 1..Len(ret.val)} = wanted
                  /\ Len(ret.val) = Cardinality(wanted)
           /\ (ret.limit.given /\ ret.limit.n >= 0) =>
                  ret.val = SubSeq(whole, 1, Min(ret.limit.n, Len(whole)))

\* ---------------------------------------------------------------- ingestion
\* POST /temporal/ingest-video (temporal.py) and POST /ingest/video (ingest.py)
\* are the same handler; process_remaining_videos is the same function, a
\* coroutine in temporal.py and a plain function calling asyncio.run in
\* ingest.py.

VideoIds == {"a", "b"}

RECURSIVE ListsUpTo(_)
ListsUpTo(n) ==
    IF n = 0 THEN {<<>>}
    ELSE LET shorter == ListsUpTo(n - 1)
         IN shorter \cup {Append(l, v) : l \in {x \in shorter : Len(x) = n - 1},
                                         v \in VideoIds}

\* request.video_ids
VideoLists == ListsUpTo(MaxVideos)

\* request.video_ids[1:]
Rest(video_ids) == SubSeq(video_ids, 2, Len(video_ids))

\* an exception that is no per-video failure
Unexpected == "bug"

\* f"Starting background processing for {len(video_ids)} videos"
StartMsg(n) == <<"Starting background processing for", ToString(n), "videos">>
\* f"Processing video {i}/{len(video_ids)}: {video_item.id}"
ProgressMsg(i, n, vid) == <<"Processing video", ToString(i), ToString(n), vid>>
\* f"Background video processing completed in {background_time:.2f}s"
DoneMsg == <<"Background video processing completed in", "background_time">>
\* f"Background video processing failed: {e}"
ErrMsg(e) == <<"Background video processing failed:", e>>

\* background_tasks.add_task(process_remaining_videos, request.video_ids[1:], task_id)
NewJob(task_id, video_ids) ==
    [task_id |-> task_id, video_ids |-> video_ids, pc |-> "start", phase |-> "call",
     idx |-> 0, yielded |-> 0, outcomes |-> <<>>, exc |-> "none"]

\* the statements of process_remaining_videos that call the tracker
TrackerPcs == {"start", "announce", "progress", "finish", "complete",
               "except_progress", "except_complete"}
\* those of its try block
TryPcs == {"start", "announce", "construct", "fetch", "progress", "finish", "complete"}
Ended == {"returned", "raised"}

\* the tracker call at job.pc: the registry after it
ApplyCall(ts, job, t) ==
    LET id == job.task_id
        n == Len(job.video_ids)
    IN CASE job.pc = "start" -> start_task(ts, id, t).tasks
         [] job.pc = "announce" -> update_progress(ts, id, StartMsg(n)).tasks
         [] job.pc = "progress" ->
                update_progress(ts, id,
                    ProgressMsg(job.yielded, n, job.video_ids[job.idx])).tasks
         [] job.pc = "finish" -> update_progress(ts, id, DoneMsg).tasks
         [] job.pc = "complete" -> complete_task(ts, id, TRUE, NoText, t).tasks
         [] job.pc = "except_progress" ->
                update_progress(ts, id, ErrMsg(job.exc)).tasks
         [] job.pc = "except_complete" ->
                complete_task(ts, id, FALSE, ErrMsg(job.exc), t).tasks

\* the statement after the tracker call at pc
AfterCall(pc) ==
    CASE pc = "start" -> "announce"
      [] pc = "announce" -> "construct"
      [] pc = "progress" -> "fetch"
      [] pc = "finish" -> "complete"
      [] pc = "complete" -> "returned"
      [] pc = "except_progress" -> "except_complete"
      [] pc = "except_complete" -> "returned"

\* video_source = YouTubeVideoSource(), inside the try block
Construct(job, raises) ==
    IF raises THEN [job EXCEPT !.exc = Unexpected, !.pc = "except_progress"]
    ELSE [job EXCEPT !.pc = "fetch"]

\* fetch_video without its per-video except clause: a video's failure leaves
\* the generator
Fetch_video_error_escapes(job, outcome) ==
    IF job.idx = Len(job.video_ids) THEN [job EXCEPT !.pc = "finish"]
    ELSE CASE outcome = "ok" ->
                [job EXCEPT !.idx = @ + 1, !.yielded = @ + 1,
                            !.outcomes = Append(@, "ok"), !.pc = "progress"]
           [] outcome = "fail" ->
                [job EXCEPT !.exc = "video error", !.pc = "except_progress"]
           [] outcome = "raise" ->
                [job EXCEPT !.exc = Unexpected, !.pc = "except_progress"]

\* One turn of `for i, video_item in enumerate(video_source.fetch_video(video_ids), 1)`:
\* fetch_video handles the next id inside its own try/except. "ok": it yields
\* the item and enumerate counts it; "fail": its except clause logs the error
\* and goes on to the next id; "raise": an exception that is not a per-video
\* failure escapes the loop. With no id left the loop ends.
Fetch(job, outcome) ==
    IF job.idx = Len(job.video_ids) THEN [job EXCEPT !.pc = "finish"]
    ELSE CASE outcome = "ok" ->
                [job EXCEPT !.idx = @ + 1, !.yielded = @ + 1,
                            !.outcomes = Append(@, "ok"), !.pc = "progress"]
           [] outcome = "fail" ->
                [job EXCEPT !.idx = @ + 1, !.outcomes = Append(@, "fail")]
           [] outcome = "raise" ->
                [job EXCEPT !.exc = Unexpected, !.pc = "except_progress"]

\* ---------------------------------------------------------------- SpecBatch
\* temporal.py. Every coroutine runs on the one event loop, and none of them
\* suspends inside process_remaining_videos or a handler: the tracker's lock is
\* never held across an await, so `async with self._lock` never waits, and
\* fetch_video is a plain generator. A started execution therefore runs to its
\* end before any other coroutine runs.

NoJobRunning == \A j \in 1..Len(jobs) : jobs[j].pc \in {"start"} \cup Ended

\* what the handler's processing of request.video_ids[0] does: fetch_video
\* yields the item, it yields nothing (the video failed inside fetch_video), or
\* YouTubeVideoSource() or the processing raises an exception
FirstOutcomes == {"ok", "nothing", "raises"}

CanRun(j) == jobs[j].pc \notin Ended /\ (jobs[j].pc = "start" => NoJobRunning)

IngestVideo ==
    /\ NoJobRunning
    /\ \E video_ids \in VideoLists, first \in FirstOutcomes :
        LET rest == Rest(video_ids)
            cmd == <<"background_video_processing", "--videos">> \o rest
            metadata == [video_ids |-> rest, request_type |-> "temporal_video_ingest"]
            r == add_task(tasks, nextId, cmd, metadata, now)
        IN IF video_ids = <<>>
           THEN \* request.video_ids[0] raises IndexError: 500
                /\ ret' = [op |-> "ingest_video", video_ids |-> video_ids,
                           code |-> 500, task_id |-> 0]
                /\ UNCHANGED <<tasks, nextId, jobs>>
           ELSE IF first = "raises"
           THEN \* except Exception: 500
                /\ ret' = [op |-> "ingest_video", video_ids |-> video_ids,
                           code |-> 500, task_id |-> 0]
                /\ UNCHANGED <<tasks, nextId, jobs>>
           ELSE IF first = "nothing"
           THEN \* fetch_video yielded nothing for the first id: 404
                /\ ret' = [op |-> "ingest_video", video_ids |-> video_ids,
                           code |-> 404, task_id |-> 0]
                /\ UNCHANGED <<tasks, nextId, jobs>>
           ELSE IF Len(video_ids) > 1
           THEN /\ nextId <= MaxTasks
                /\ tasks' = r.tasks
                /\ nextId' = nextId + 1
                /\ jobs' = Append(jobs, NewJob(r.val, rest))
                /\ ret' = [op |-> "ingest_video", video_ids |-> video_ids,
                           code |-> 200, task_id |-> r.val]
           ELSE /\ ret' = [op |-> "ingest_video", video_ids |-> video_ids,
                           code |-> 200, task_id |-> 0]
                /\ UNCHANGED <<tasks, nextId, jobs>>
    /\ UNCHANGED <<now, lock, req>>

BgTrackerCall ==
    \E j \in 1..Len(jobs) :
        /\ CanRun(j)
        /\ jobs[j].pc \in TrackerPcs
        /\ tasks' = ApplyCall(tasks, jobs[j], now)
        /\ jobs' = [jobs EXCEPT ![j].pc = AfterCall(@)]
        /\ ret' = [op |-> "background", task_id |-> jobs[j].task_id]
        /\ UNCHANGED <<nextId, now, lock, req>>

BgConstruct ==
    \E j \in 1..Len(jobs), raises \in BOOLEAN :
        /\ CanRun(j)
        /\ jobs[j].pc = "construct"
        /\ jobs' = [jobs EXCEPT ![j] = Construct(@, raises)]
        /\ ret' = [op |-> "background", task_id |-> jobs[j].task_id]
        /\ UNCHANGED <<tasks, nextId, now, lock, req>>

BgFetch ==
    \E j \in 1..Len(jobs), outcome \in {"ok", "fail", "raise"} :
        /\ CanRun(j)
        /\ jobs[j].pc = "fetch"
        /\ jobs' = [jobs EXCEPT ![j] = Fetch(@, outcome)]
        /\ ret' = [op |-> "background", task_id |-> jobs[j].task_id]
        /\ UNCHANGED <<tasks, nextId, now, lock, req>>

\* GET /tasks/{task_id}
GetTaskStatus ==
    /\ NoJobRunning
    /\ \E id \in TaskIds :
        LET task == get_task(tasks, id)
        IN ret' = IF task = 0
                  THEN [op |-> "get_task_status", task_id |-> id, code |-> 404]
                  ELSE [op |-> "get_task_status", task_id |-> id, code |-> 200,
                        status |-> Rec(tasks, task).status,
                        completed_at |-> Rec(tasks, task).completed_at,
                        error_message |-> Rec(tasks, task).error_message,
                        progress |-> Rec(tasks, task).progress]
    /\ UNCHANGED <<tasks, nextId, now, jobs, lock, req>>

\* DELETE /tasks/cleanup
CleanupRequest ==
    /\ NoJobRunning
    /\ CleanupOldTasks

NextBatch ==
    \/ Tick
    \/ IngestVideo
    \/ BgTrackerCall
    \/ BgConstruct
    \/ BgFetch
    \/ GetTaskStatus
    \/ CleanupRequest

SpecBatch == Init /\ [][NextBatch]_vars

\* --------------------------------------------------------- claims, SpecBatch
\* C10: a video's failure is handled inside fetch_video and never fails the
\* task: unless something other than a video's failure raised, the execution
\* never enters its except clause, goes through every remaining id, and ends
\* with the task Completed, whichever of the videos failed.
C10_VideoFailuresNeverFailTask ==
    \A j \in 1..Len(jobs) :
        jobs[j].exc # Unexpected =>
            /\ jobs[j].pc \notin {"except_progress", "except_complete", "raised"}
            /\ Has(tasks, jobs[j].task_id) =>
                    Rec(tasks, jobs[j].task_id).status # FAILED
            /\ jobs[j].pc = "returned" =>
                    /\ Len(jobs[j].outcomes) = Len(jobs[j].video_ids)
                    /\ Has(tasks, jobs[j].task_id) =>
                            Rec(tasks, jobs[j].task_id).status = COMPLETED

\* every remaining video of a batch of MaxVideos failed, and the task is Completed
C10_Witness ==
    \E j \in 1..Len(jobs) :
        /\ jobs[j].pc = "returned"
        /\ Len(jobs[j].outcomes) = MaxVideos - 1
        /\ \A i \in 1..Len(jobs[j].outcomes) : jobs[j].outcomes[i] = "fail"
        /\ Has(tasks, jobs[j].task_id)
        /\ Rec(tasks, jobs[j].task_id).status = COMPLETED

\* a step that answers an ingestion request, other than with the 500 of an
\* exception that is no video's failure
IngestStep == ret' # ret /\ ret'.op = "ingest_video" /\ ret'.code # 500

\* C11: a video's failure stops the processing of that video only, wherever
\* it stands in the request: the ids after the first are handed to background
\* execution whether or not the first one failed, and a background execution
\* that ends goes through every id it was given.
C11_FailureAbortsOneVideoOnly ==
    [][/\ (IngestStep /\ Len(ret'.video_ids) > 1) =>
            /\ Len(jobs') = Len(jobs) + 1
            /\ jobs'[Len(jobs')].video_ids = Rest(ret'.video_ids)
       /\ \A j \in 1..Len(jobs') :
            (jobs'[j].pc = "returned" /\ jobs'[j].exc = "none") =>
                Len(jobs'[j].outcomes) = Len(jobs'[j].video_ids)]_vars

\* C12: a request with more than one id is answered after its first id was
\* processed, registers exactly one task, Pending, whose metadata and command
\* list the ids after the first in the submitted order, and hands exactly
\* those ids to background execution; a request with one id registers no task
\* and hands nothing over.
C12_OneTaskForTheRest ==
    [][IngestStep =>
        LET ids == ret'.video_ids
        IN /\ Len(ids) > 1 =>
                /\ ret'.code = 200
                /\ Len(tasks') = Len(tasks) + 1
                /\ SubSeq(tasks', 1, Len(tasks)) = tasks
                /\ tasks'[Len(tasks')].task_id = ret'.task_id
                /\ ~Has(tasks, ret'.task_id)
                /\ tasks'[Len(tasks')].status = PENDING
                /\ tasks'[Len(tasks')].metadata.video_ids = Rest(ids)
                /\ tasks'[Len(tasks')].command =
                        <<"background_video_processing", "--videos">> \o Rest(ids)
                /\ jobs' = Append(jobs, NewJob(ret'.task_id, Rest(ids)))
           /\ Len(ids) = 1 => (tasks' = tasks /\ jobs' = jobs)]_vars

\* ---------------------------------------------------------------- SpecThreads
\* ingest.py. process_remaining_videos is a plain function, so the framework
\* runs it on a worker thread; each asyncio.run(tracker.op(...)) of it runs the
\* operation on an event loop of its own, made for that call. The request
\* coroutines run on the server's event loop, on another thread. asyncio.Lock
\* is not thread-safe: the steps below are the statements of Lock.acquire and
\* Lock.release and of the tracker's operations, and the two threads take them
\* in any order.
\*
\*   acquire: `if not self._locked and <no waiter>:`, then
\*            `self._locked = True`; otherwise, in a later statement, the lock
\*            binds itself to the caller's event loop (or raises RuntimeError
\*            if it is bound to another one) and queues a future, which the
\*            caller awaits; woken, `self._waiters.remove(fut)` and then
\*            `self._locked = True`.
\*   release: `if self._locked:`, then `self._locked = False`, then
\*            self._wake_up_first(): set_result on the first waiter's future.
\*            Called from the other thread, that does not wake the waiter's
\*            event loop: a loop already asleep in select() never runs the
\*            callback.
\*
\* One execution runs on the worker thread at a time (MaxJobs), over at most
\* MaxWorkerVideos video ids, beside the requests of RequestOps.

\* not self._locked and (self._waiters is None or all cancelled)
FastPath(l) == ~l.locked /\ l.waiters = <<>>

\* self._wake_up_first(): set_result on the future of the first waiter
WakeUpFirst(l) ==
    [l EXCEPT !.woken = IF l.waiters # <<>> THEN @ \cup {Head(l.waiters)} ELSE @]

\* the woken waiter `who` leaves the queue: self._waiters.remove(fut)
Resume(l, who) ==
    [l EXCEPT !.waiters = SelectSeq(@, LAMBDA w : w # who),
              !.woken = @ \ {who}]

\* an exception raised by a tracker call of process_remaining_videos: in the
\* try block the except clause takes over, in the except clause it leaves the
\* function
Raise(job, e) ==
    IF job.pc \in TryPcs
    THEN [job EXCEPT !.exc = e, !.pc = "except_progress", !.phase = "call"]
    ELSE [job EXCEPT !.pc = "raised", !.phase = "call"]

Update1(ts, id, status, started_at, completed_at, progress) ==
    [i \in 1..Len(ts) |->
        IF ts[i].task_id # id THEN ts[i]
        ELSE [ts[i] EXCEPT
                !.status = IF status = "keep" THEN @ ELSE status,
                !.started_at = IF started_at = NoTime THEN @ ELSE started_at,
                !.completed_at = IF completed_at = NoTime THEN @ ELSE completed_at,
                !.progress = IF progress = NoText THEN @ ELSE progress]]

\* Write1 with no assignment in the update_progress of the completion text
Write1_finish_keeps_progress(ts, job, t) ==
    LET id == job.task_id
        n == Len(job.video_ids)
    IN CASE job.pc = "start" -> Update1(ts, id, RUNNING, NoTime, NoTime, NoText)
         [] job.pc = "announce" -> Update1(ts, id, "keep", NoTime, NoTime, StartMsg(n))
         [] job.pc = "progress" ->
                Update1(ts, id, "keep", NoTime, NoTime,
                        ProgressMsg(job.yielded, n, job.video_ids[job.idx]))
         [] job.pc = "finish" -> ts
         [] job.pc = "complete" -> Update1(ts, id, "keep", NoTime, t, NoText)
         [] job.pc = "except_progress" ->
                Update1(ts, id, "keep", NoTime, NoTime, ErrMsg(job.exc))
         [] job.pc = "except_complete" -> Update1(ts, id, "keep", NoTime, t, NoText)

\* the first assignment of the tracker call at job.pc
Write1(ts, job, t) ==
    LET id == job.task_id
        n == Len(job.video_ids)
    IN CASE job.pc = "start" -> Update1(ts, id, RUNNING, NoTime, NoTime, NoText)
         [] job.pc = "announce" -> Update1(ts, id, "keep", NoTime, NoTime, StartMsg(n))
         [] job.pc = "progress" ->
                Update1(ts, id, "keep", NoTime, NoTime,
                        ProgressMsg(job.yielded, n, job.video_ids[job.idx]))
         [] job.pc = "finish" -> Update1(ts, id, "keep", NoTime, NoTime, DoneMsg)
         [] job.pc = "complete" -> Update1(ts, id, "keep", NoTime, t, NoText)
         [] job.pc = "except_progress" ->
                Update1(ts, id, "keep", NoTime, NoTime, ErrMsg(job.exc))
         [] job.pc = "except_complete" -> Update1(ts, id, "keep", NoTime, t, NoText)

\* its second assignment, if it has one
Write2(ts, job, t) ==
    LET id == job.task_id
    IN CASE job.pc = "start" -> Update1(ts, id, "keep", t, NoTime, NoText)
         [] job.pc = "complete" -> Update1(ts, id, COMPLETED, NoTime, NoTime, NoText)
         [] job.pc = "except_complete" -> Update1(ts, id, FAILED, NoTime, NoTime, NoText)
         [] OTHER -> ts

\* task.error_message = error_message, the third assignment of
\* complete_task(success=False)
Write3(ts, job) ==
    [i \in 1..Len(ts) |->
        IF ts[i].task_id # job.task_id THEN ts[i]
        ELSE [ts[i] EXCEPT !.error_message = ErrMsg(job.exc)]]

\* the phases of a tracker call between its acquire and its release
Inside(j) ==
    jobs[j].phase \in {"in1", "get", "w1", "w2", "w3", "rel", "relx", "unl", "unlx"}

\* the worker evaluates acquire's condition
ThAcquire ==
    \E j \in 1..Len(jobs) :
        /\ jobs[j].pc \in TrackerPcs
        /\ jobs[j].phase = "call"
        /\ jobs' = [jobs EXCEPT ![j].phase = IF FastPath(lock) THEN "set" ELSE "slow"]
        /\ ret' = [op |-> "background", task_id |-> jobs[j].task_id]
        /\ UNCHANGED <<tasks, nextId, now, lock, req>>

\* fut = self._get_loop().create_future(); self._waiters.append(fut): the
\* loop of this asyncio.run is a new one
ThQueue ==
    \E j \in 1..Len(jobs) :
        /\ jobs[j].phase = "slow"
        /\ IF lock.loop = "none"
           THEN /\ lock' = [lock EXCEPT !.loop = "temp", !.waiters = Append(@, j)]
                /\ jobs' = [jobs EXCEPT ![j].phase = "wait"]
           ELSE /\ jobs' = [jobs EXCEPT ![j] = Raise(@, "RuntimeError")]
                /\ UNCHANGED lock
        /\ UNCHANGED <<tasks, nextId, now, ret, req>>

\* self._locked = True
ThSet ==
    \E j \in 1..Len(jobs) :
        /\ jobs[j].phase = "set"
        /\ lock' = [lock EXCEPT !.locked = TRUE]
        /\ jobs' = [jobs EXCEPT ![j].phase = "in1"]
        /\ UNCHANGED <<tasks, nextId, now, ret, req>>

\* the worker's loop runs the future's callback: self._waiters.remove(fut)
ThResume ==
    \E j \in 1..Len(jobs) :
        /\ jobs[j].phase = "wait"
        /\ j \in lock.woken
        /\ lock' = Resume(lock, j)
        /\ jobs' = [jobs EXCEPT ![j].phase = "set"]
        /\ UNCHANGED <<tasks, nextId, now, ret, req>>

\* the worker's loop was asleep when the other thread set the result
ThLostWakeup ==
    \E j \in 1..Len(jobs) :
        /\ jobs[j].phase = "wait"
        /\ j \in lock.woken
        /\ jobs' = [jobs EXCEPT ![j].phase = "hung"]
        /\ UNCHANGED <<tasks, nextId, now, ret, lock, req>>

\* if task_id not in self._tasks: return False
ThCheck ==
    \E j \in 1..Len(jobs) :
        /\ jobs[j].phase = "in1"
        /\ jobs' = [jobs EXCEPT ![j].phase =
                        IF Has(tasks, jobs[j].task_id) THEN "get" ELSE "rel"]
        /\ UNCHANGED <<tasks, nextId, now, ret, lock, req>>

\* task = self._tasks[task_id]: KeyError if the other thread has deleted the
\* record since the test
ThLookup ==
    \E j \in 1..Len(jobs) :
        /\ jobs[j].phase = "get"
        /\ jobs' = [jobs EXCEPT ![j].phase =
                        IF Has(tasks, jobs[j].task_id) THEN "w1" ELSE "relx"]
        /\ UNCHANGED <<tasks, nextId, now, ret, lock, req>>

\* the assignments to the record that was looked up; one that the other thread
\* has deleted since is no longer in the registry. start_task and
\* complete_task make a second assignment, complete_task(success=False) a third.
ThWrite1 ==
    \E j \in 1..Len(jobs) :
        /\ jobs[j].phase = "w1"
        /\ tasks' = Write1(tasks, jobs[j], now)
        /\ jobs' = [jobs EXCEPT ![j].phase =
                        IF jobs[j].pc \in {"start", "complete", "except_complete"}
                        THEN "w2" ELSE "rel"]
        /\ UNCHANGED <<nextId, now, ret, lock, req>>

ThWrite2 ==
    \E j \in 1..Len(jobs) :
        /\ jobs[j].phase = "w2"
        /\ tasks' = Write2(tasks, jobs[j], now)
        /\ jobs' = [jobs EXCEPT ![j].phase =
                        IF jobs[j].pc = "except_complete" THEN "w3" ELSE "rel"]
        /\ UNCHANGED <<nextId, now, ret, lock, req>>

ThWrite3 ==
    \E j \in 1..Len(jobs) :
        /\ jobs[j].phase = "w3"
        /\ tasks' = Write3(tasks, jobs[j])
        /\ jobs' = [jobs EXCEPT ![j].phase = "rel"]
        /\ UNCHANGED <<nextId, now, ret, lock, req>>

\* __aexit__ calls Lock.release: `if self._locked:`, else
\* RuntimeError('Lock is not acquired.'), which the other thread's release
\* brings about
ThRelease ==
    \E j \in 1..Len(jobs) :
        /\ jobs[j].phase \in {"rel", "relx"}
        /\ jobs' = IF lock.locked
                   THEN [jobs EXCEPT ![j].phase = IF @ = "rel" THEN "unl" ELSE "unlx"]
                   ELSE [jobs EXCEPT ![j] = Raise(@, "RuntimeError")]
        /\ UNCHANGED <<tasks, nextId, now, ret, lock, req>>

\* self._locked = False
ThUnlock ==
    \E j \in 1..Len(jobs) :
        /\ jobs[j].phase \in {"unl", "unlx"}
        /\ lock' = [lock EXCEPT !.locked = FALSE]
        /\ jobs' = [jobs EXCEPT ![j].phase = IF @ = "unl" THEN "wk" ELSE "wkx"]
        /\ UNCHANGED <<tasks, nextId, now, ret, req>>

\* self._wake_up_first(); the call then returns, or the KeyError of its
\* lookup goes on
ThWake ==
    \E j \in 1..Len(jobs) :
        /\ jobs[j].phase \in {"wk", "wkx"}
        /\ lock' = WakeUpFirst(lock)
        /\ jobs' = IF jobs[j].phase = "wk"
                   THEN [jobs EXCEPT ![j].pc = AfterCall(@), ![j].phase = "call"]
                   ELSE [jobs EXCEPT ![j] = Raise(@, "KeyError")]
        /\ UNCHANGED <<tasks, nextId, now, ret, req>>

ThConstruct ==
    \E j \in 1..Len(jobs), raises \in BOOLEAN :
        /\ jobs[j].pc = "construct"
        /\ jobs' = [jobs EXCEPT ![j] = Construct(@, raises)]
        /\ UNCHANGED <<tasks, nextId, now, ret, lock, req>>

ThFetch ==
    \E j \in 1..Len(jobs), outcome \in {"ok", "fail", "raise"} :
        /\ jobs[j].pc = "fetch"
        /\ jobs' = [jobs EXCEPT ![j] = Fetch(@, outcome)]
        /\ UNCHANGED <<tasks, nextId, now, ret, lock, req>>

Worker ==
    \/ ThAcquire
    \/ ThQueue
    \/ ThSet
    \/ ThResume
    \/ ThLostWakeup
    \/ ThCheck
    \/ ThLookup
    \/ ThWrite1
    \/ ThWrite2
    \/ ThWrite3
    \/ ThRelease
    \/ ThUnlock
    \/ ThWake
    \/ ThConstruct
    \/ ThFetch

\* POST /ingest/video: one request with more than one id is followed
ThIngestVideo ==
    /\ Len(jobs) < MaxJobs
    /\ req.pc = "idle"
    /\ IngestVideo
    /\ \A j \in 1..Len(jobs') : Len(jobs'[j].video_ids) <= MaxWorkerVideos

\* A request coroutine calls the tracker: GET /tasks/{task_id}, for a
\* registered id or for the next one, which is not, or DELETE /tasks/cleanup.
\* It evaluates acquire's condition.
\* The tracker calls of the handlers of routers/tasks.py that the server's
\* event loop runs beside the worker thread: GET /tasks/{task_id},
\* GET /tasks/count/running and DELETE /tasks/cleanup.
RequestOps == {"get_task", "get_running_tasks", "cleanup_old_tasks"}

\* cleanup_old_tasks reads the clock for cutoff_date, before it asks for the
\* lock: `t` is the time of that reading
RqCutoff ==
    /\ req.pc = "idle"
    /\ \E days \in Days :
        req' = [pc |-> "acquire", op |-> "cleanup_old_tasks", arg |-> days, t |-> now]
    /\ UNCHANGED <<tasks, nextId, now, ret, jobs, lock>>

\* the request evaluates acquire's condition: get_task and get_running_tasks
\* as their first statement, cleanup_old_tasks after it has its cutoff_date
RqAcquire ==
    \/ /\ req.pc = "idle"
       /\ \E op \in RequestOps \ {"cleanup_old_tasks"}, id \in 1..nextId :
            req' = [pc |-> IF FastPath(lock) THEN "set" ELSE "slow", op |-> op,
                    arg |-> IF op = "get_task" THEN id ELSE 0, t |-> 0]
       /\ UNCHANGED <<tasks, nextId, now, ret, jobs, lock>>
    \/ /\ req.pc = "acquire"
       /\ req' = [req EXCEPT !.pc = IF FastPath(lock) THEN "set" ELSE "slow"]
       /\ UNCHANGED <<tasks, nextId, now, ret, jobs, lock>>

\* fut = self._get_loop().create_future(); self._waiters.append(fut)
RqQueue ==
    /\ req.pc = "slow"
    /\ IF lock.loop \in {"none", "main"}
       THEN /\ lock' = [lock EXCEPT !.loop = "main", !.waiters = Append(@, "main")]
            /\ req' = [req EXCEPT !.pc = "wait"]
            /\ UNCHANGED ret
       ELSE \* RuntimeError: ... is bound to a different event loop
            /\ ret' = [op |-> req.op, code |-> 500]
            /\ req' = [pc |-> "idle"]
            /\ UNCHANGED lock
    /\ UNCHANGED <<tasks, nextId, now, jobs>>

RqSet ==
    /\ req.pc = "set"
    /\ lock' = [lock EXCEPT !.locked = TRUE]
    /\ req' = [req EXCEPT !.pc = "in"]
    /\ UNCHANGED <<tasks, nextId, now, ret, jobs>>

\* woken: self._waiters.remove(fut)
RqResume ==
    /\ req.pc = "wait"
    /\ "main" \in lock.woken
    /\ lock' = Resume(lock, "main")
    /\ req' = [req EXCEPT !.pc = "set"]
    /\ UNCHANGED <<tasks, nextId, now, ret, jobs>>

\* the operation's body, inside `async with self._lock`: get_task looks the
\* record up, get_running_tasks lists the Running records (the handler
\* answers their number), cleanup_old_tasks deletes the old records
RqBody ==
    /\ req.pc = "in"
    /\ IF req.op = "cleanup_old_tasks"
       THEN LET r == cleanup_old_tasks(tasks, req.arg, req.t)
            IN /\ tasks' = r.tasks
               /\ req' = [pc |-> "rel", op |-> req.op, arg |-> req.arg,
                          val |-> r.val, raised |-> r.raised]
       ELSE /\ UNCHANGED tasks
            /\ req' = [pc |-> "rel", op |-> req.op, arg |-> req.arg,
                       val |-> IF req.op = "get_task"
                               THEN get_task(tasks, req.arg)
                               ELSE Len(get_running_tasks(tasks)),
                       raised |-> FALSE]
    /\ UNCHANGED <<nextId, now, ret, jobs, lock>>

\* __aexit__ calls Lock.release: `if self._locked:`, else
\* RuntimeError('Lock is not acquired.'), which the handler answers with 500
RqRelease ==
    /\ req.pc = "rel"
    /\ IF lock.locked
       THEN /\ req' = [req EXCEPT !.pc = "unl"]
            /\ UNCHANGED ret
       ELSE /\ ret' = [op |-> req.op, code |-> 500]
            /\ req' = [pc |-> "idle"]
    /\ UNCHANGED <<tasks, nextId, now, jobs, lock>>

\* self._locked = False
RqUnlock ==
    /\ req.pc = "unl"
    /\ lock' = [lock EXCEPT !.locked = FALSE]
    /\ req' = [req EXCEPT !.pc = "wk"]
    /\ UNCHANGED <<tasks, nextId, now, ret, jobs>>

\* self._wake_up_first(), and the operation returns to its handler
RqWake ==
    /\ req.pc = "wk"
    /\ lock' = WakeUpFirst(lock)
    /\ IF req.op = "cleanup_old_tasks"
       THEN /\ ret' = [op |-> "cleanup_old_tasks", days |-> req.arg,
                       val |-> req.val, raised |-> req.raised]
            /\ req' = [pc |-> "idle"]
       ELSE IF req.op = "get_running_tasks"
       THEN /\ ret' = [op |-> "get_running_task_count", val |-> req.val]
            /\ req' = [pc |-> "idle"]
       ELSE IF req.val = 0
       THEN /\ ret' = [op |-> "get_task_status", task_id |-> req.arg, code |-> 404]
            /\ req' = [pc |-> "idle"]
       ELSE /\ req' = [pc |-> "read_status", task |-> req.arg]
            /\ UNCHANGED ret
    /\ UNCHANGED <<tasks, nextId, now, jobs>>

\* get_task_status reads the fields of the record get_task returned:
\* status=task.status.value
RqReadStatus ==
    /\ req.pc = "read_status"
    /\ req' = [pc |-> "read_completed_at", task |-> req.task,
               status |-> Rec(tasks, req.task).status]
    /\ UNCHANGED <<tasks, nextId, now, ret, jobs, lock>>

\* completed_at=task.completed_at
RqReadCompletedAt ==
    /\ req.pc = "read_completed_at"
    /\ req' = [pc |-> "read_progress", task |-> req.task, status |-> req.status,
               completed_at |-> Rec(tasks, req.task).completed_at]
    /\ UNCHANGED <<tasks, nextId, now, ret, jobs, lock>>

\* progress=task.progress, and the response
RqReadProgress ==
    /\ req.pc = "read_progress"
    /\ ret' = [op |-> "get_task_status", task_id |-> req.task, code |-> 200,
               status |-> req.status, completed_at |-> req.completed_at,
               progress |-> Rec(tasks, req.task).progress]
    /\ req' = [pc |-> "idle"]
    /\ UNCHANGED <<tasks, nextId, now, jobs, lock>>

Request ==
    \/ RqCutoff
    \/ RqAcquire
    \/ RqQueue
    \/ RqSet
    \/ RqResume
    \/ RqBody
    \/ RqRelease
    \/ RqUnlock
    \/ RqWake
    \/ RqReadStatus
    \/ RqReadCompletedAt
    \/ RqReadProgress

NextThreads ==
    \/ Tick
    \/ ThIngestVideo
    \/ Worker
    \/ Request

SpecThreads == Init /\ [][NextThreads]_vars

\* Every thread that can take a step is scheduled, and the server's event loop
\* keeps running its coroutines.
FairThreads == SpecThreads /\ WF_vars(Worker) /\ WF_vars(Request)

\* ------------------------------------------------------- claims, SpecThreads
\* C4: the registry's operations are serialised: no two callers are inside an
\* operation at once, and a caller sees a task either before or after another
\* caller's operation, never in between. A status response therefore has a
\* completion time exactly when its status is Completed or Failed.
C4_OperationsSerialized ==
    /\ \A j \in 1..Len(jobs) : ~(Inside(j) /\ req.pc \in {"in", "rel", "unl"})
    /\ (ret.op = "get_task_status" /\ ret.code = 200)
        => (ret.completed_at # NoTime <=> ret.status \in {COMPLETED, FAILED})

\* C8: a background batch that has ended has moved its task through Running
\* and left it Completed if the run raised nothing, Failed with the
\* exception's message if it raised.
C8_BatchEndsCompletedOrFailed ==
    \A j \in 1..Len(jobs) :
        (jobs[j].pc \in Ended /\ Has(tasks, jobs[j].task_id)) =>
            LET r == Rec(tasks, jobs[j].task_id)
            IN /\ r.started_at # NoTime
               /\ jobs[j].exc = "none" => r.status = COMPLETED
               /\ jobs[j].exc # "none" =>
                    /\ r.status = FAILED
                    /\ r.error_message = ErrMsg(jobs[j].exc)

\* the task of job j is Completed or Failed, or cleanup_old_tasks, which
\* removes only such tasks, has removed it
Terminal(j) ==
    /\ Len(jobs) >= j
    /\ Has(tasks, jobs[j].task_id) =>
            Rec(tasks, jobs[j].task_id).status \in {COMPLETED, FAILED}

\* C9: every task handed to background execution eventually reaches Completed
\* or Failed.
C9_EveryJobReachesTerminal ==
    \A j \in 1..MaxTasks : (Len(jobs) >= j) ~> Terminal(j)

\* ----------------------------------------------------------------- search
\* rag/temporal_search.py over rag/vector_store.py. A document of the store is
\* its metadata: segment_type, video_id, start_time, end_time, entities and
\* doc_id, as _create_segment stores them.

\* segment_id = f"{video_id}_{start_time}_{end_time}"
DocId(video_id, start_time, end_time) == <<video_id, start_time, end_time>>

Document(segment_type, video_id, start_time, end_time, entities) ==
    [segment_type |-> segment_type, video_id |-> video_id,
     start_time |-> start_time, end_time |-> end_time, entities |-> entities,
     doc_id |-> DocId(video_id, start_time, end_time)]

StartTimes == 0..MaxStart
EndTimes == 1..(MaxStart + 1)
EntityLists == {<<"Bob">>, <<"Bob", "Ada">>}

\* the segments of the videos, and a document of another kind
Documents ==
    {Document("video_segment", v, st, en, es) :
        v \in VideoIds, st \in StartTimes, en \in EndTimes, es \in EntityLists}
    \cup {Document("document", "a", 0, 1, <<"Bob", "Ada">>)}

RECURSIVE DocumentsUpTo(_)
DocumentsUpTo(n) ==
    IF n = 0 THEN {<<>>}
    ELSE LET shorter == DocumentsUpTo(n - 1)
         IN shorter \cup {Append(l, d) : l \in {x \in shorter : Len(x) = n - 1},
                                         d \in Documents}

\* InMemoryVectorStore.documents
DocumentLists == DocumentsUpTo(MaxHits)

\* TemporalSearchQuery: an Optional field is None (not given) or a value
NoVideoIds == [given |-> FALSE, v |-> <<>>]
NoTimeRange == [given |-> FALSE, lo |-> 0, hi |-> 0]
NoEntity == [given |-> FALSE, s |-> ""]
VideoIdFilters == {NoVideoIds, [given |-> TRUE, v |-> <<>>], [given |-> TRUE, v |-> <<"a">>]}
TimeRanges ==
    {NoTimeRange} \cup
    {[given |-> TRUE, lo |-> t, hi |-> t] : t \in StartTimes}
EntityFilters == {NoEntity, [given |-> TRUE, s |-> "ADA"]}
Queries ==
    [video_ids : VideoIdFilters, time_range : TimeRanges,
     entity_filter : EntityFilters, max_results : 0..MaxResults]

\* self.vectorstore is None; vectorstore.search raises; or it answers
StoreStates == {"none", "raises", "ok"}

\* str.lower() on the strings of the model
Lower(str) ==
    CASE str = "Ada" -> "ada"
      [] str = "ADA" -> "ada"
      [] str = "Bob" -> "bob"
      [] OTHER -> str

Elems(seq) == {seq[i] : i \in 1..Len(seq)}

\* InMemoryVectorStore.search: self.documents[:k]
search(documents, k) == SliceTo(documents, k)

\* results = self.vectorstore.search(search_query, k=query.max_results * 2)
OverFetch == 2
\* results = self.vectorstore.search("", k=1000)
TimelineK == 1000

\* the three filters of the loop of search_entities, after the segment_type test
Passes(query, d) ==
    /\ d.segment_type = "video_segment"
    \* if query.video_ids and metadata.get("video_id") not in query.video_ids
    /\ ~(/\ query.video_ids.given
         /\ query.video_ids.v # <<>>
         /\ d.video_id \notin Elems(query.video_ids.v))
    \* if query.time_range: ... not (lo <= start_time_segment <= hi)
    /\ ~(/\ query.time_range.given
         /\ ~(query.time_range.lo <= d.start_time /\ d.start_time <= query.time_range.hi))
    \* if query.entity_filter: ... filter.lower() not in [e.lower() for e in entities]
    /\ ~(/\ query.entity_filter.given
         /\ query.entity_filter.s # ""
         /\ Lower(query.entity_filter.s) \notin {Lower(e) : e \in Elems(d.entities)})

\* segment_key = (video_id, start_time, end_time)
segment_key(d) == <<d.video_id, d.start_time, d.end_time>>

\* TemporalSearchResult(...)
TemporalSearchResult(d) ==
    [video_id |-> d.video_id, start_time |-> d.start_time, end_time |-> d.end_time,
     entities |-> d.entities, confidence |-> 1, segment_id |-> d.doc_id]

\* the duplicate test without its set of seen keys
IsDuplicate_never(key, seen_segments) == FALSE

\* if segment_key in seen_segments
IsDuplicate(key, seen_segments) == key \in seen_segments

\* the loop of search_entities over results: temporal_results
RECURSIVE temporal_results(_, _, _, _)
temporal_results(query, results, seen_segments, acc) ==
    IF results = <<>> THEN acc
    ELSE LET d == Head(results)
             rest == Tail(results)
         IN IF ~Passes(query, d)
            THEN temporal_results(query, rest, seen_segments, acc)
            ELSE IF IsDuplicate(segment_key(d), seen_segments)
            THEN temporal_results(query, rest, seen_segments, acc)
            ELSE temporal_results(query, rest, seen_segments \cup {segment_key(d)},
                                  Append(acc, TemporalSearchResult(d)))

\* sorted(temporal_results, key=lambda x: x.confidence, reverse=True): stable
InsertByConfidence(s, x) ==
    LET k == Cardinality({i \in 1..Len(s) : s[i].confidence >= x.confidence})
    IN SubSeq(s, 1, k) \o <<x>> \o SubSeq(s, k + 1, Len(s))

RECURSIVE SortByConfidence(_)
SortByConfidence(s) ==
    IF s = <<>> THEN <<>>
    ELSE InsertByConfidence(SortByConfidence(SubSeq(s, 1, Len(s) - 1)), s[Len(s)])

\* a slice that keeps one entry more
final_results_one_more(sorted, max_results) == SliceTo(sorted, max_results + 1)

\* final_results = temporal_results[:query.max_results]
final_results(sorted, max_results) == SliceTo(sorted, max_results)

\* search_entities with an unavailable store raising instead of returning []
search_entities_raising(query, vectorstore, documents) ==
    IF vectorstore # "ok"
    THEN [results |-> <<>>, val |-> <<>>, raised |-> TRUE]
    ELSE LET results == search(documents, query.max_results * OverFetch)
             found == temporal_results(query, results, {}, <<>>)
         IN [results |-> results,
             val |-> final_results(SortByConfidence(found), query.max_results),
             raised |-> FALSE]

\* TemporalSearchService.search_entities: what the store returned, and the
\* value returned
search_entities(query, vectorstore, documents) ==
    IF vectorstore = "none"
    THEN [results |-> <<>>, val |-> <<>>, raised |-> FALSE]
    ELSE IF vectorstore = "raises"
    THEN \* except Exception as e: return []
         [results |-> <<>>, val |-> <<>>, raised |-> FALSE]
    ELSE LET results == search(documents, query.max_results * OverFetch)
             found == temporal_results(query, results, {}, <<>>)
         IN [results |-> results,
             val |-> final_results(SortByConfidence(found), query.max_results),
             raised |-> FALSE]

\* the loop of get_video_timeline over results. The turn for results[i] skips
\* a hit that is no segment of the video; seen_segments then holds the keys of
\* the segments of the video among the hits before it.
\* timeline: the entries appended, in the order of the hits
timeline(video_id, results) ==
    LET OfVideo(d) == d.segment_type = "video_segment" /\ d.video_id = video_id
        SeenBefore(i) ==
            {<<video_id, results[j].start_time, results[j].end_time>> :
                j \in {k \in 1..(i - 1) : OfVideo(results[k])}}
        appended ==
            {i \in 1..Len(results) :
                /\ OfVideo(results[i])
                /\ ~IsDuplicate(<<video_id, results[i].start_time, results[i].end_time>>,
                                SeenBefore(i))}
        at(n) == CHOOSE i \in appended : Cardinality({j \in appended : j <= i}) = n
    IN [n \in 1..Cardinality(appended) |-> TemporalSearchResult(results[at(n)])]

\* a sort that puts the later segment first
InsertByStart_descending(s, x) ==
    LET k == Cardinality({i \in 1..Len(s) : s[i].start_time >= x.start_time})
    IN SubSeq(s, 1, k) \o <<x>> \o SubSeq(s, k + 1, Len(s))

\* timeline.sort(key=lambda x: x.start_time): stable, ascending
InsertByStart(s, x) ==
    LET k == Cardinality({i \in 1..Len(s) : s[i].start_time <= x.start_time})
    IN SubSeq(s, 1, k) \o <<x>> \o SubSeq(s, k + 1, Len(s))

RECURSIVE SortByStart(_)
SortByStart(s) ==
    IF s = <<>> THEN <<>>
    ELSE InsertByStart(SortByStart(SubSeq(s, 1, Len(s) - 1)), s[Len(s)])

\* TemporalSearchService.get_video_timeline
get_video_timeline(video_id, vectorstore, documents) ==
    IF vectorstore # "ok"
    THEN [results |-> <<>>, val |-> <<>>, raised |-> FALSE]
    ELSE LET results == search(documents, TimelineK)
         IN [results |-> results,
             val |-> SortByStart(timeline(video_id, results)),
             raised |-> FALSE]

\* --------------------------------------------------------------- SpecSearch
\* One call of the search service on a store holding any documents.
SearchEntities ==
    /\ ret.op = "init"
    /\ \E query \in Queries, vectorstore \in StoreStates, documents \in DocumentLists :
        LET r == search_entities(query, vectorstore, documents)
        IN ret' = [op |-> "search_entities", query |-> query,
                   vectorstore |-> vectorstore, results |-> r.results,
                   val |-> r.val, raised |-> r.raised]
    /\ UNCHANGED <<tasks, nextId, now, jobs, lock, req>>

GetVideoTimeline ==
    /\ ret.op = "init"
    /\ \E video_id \in VideoIds, vectorstore \in StoreStates, documents \in DocumentLists :
        LET r == get_video_timeline(video_id, vectorstore, documents)
        IN ret' = [op |-> "get_video_timeline", video_id |-> video_id,
                   vectorstore |-> vectorstore, results |-> r.results,
                   val |-> r.val, raised |-> r.raised]
    /\ UNCHANGED <<tasks, nextId, now, jobs, lock, req>>

NextSearch ==
    \/ SearchEntities
    \/ GetVideoTimeline

SpecSearch == Init /\ [][NextSearch]_vars

\* -------------------------------------------------------- claims, SpecSearch
Searched == ret.op = "search_entities"
Timelined == ret.op = "get_video_timeline"

\* the (video_id, start_time, end_time) triple of an output entry
Triple(e) == <<e.video_id, e.start_time, e.end_time>>

\* C13: whatever the store returns, the output of search_entities and of
\* get_video_timeline has no two entries with the same
\* (video_id, start_time, end_time).
C13_NoTwoEntriesShareTriple ==
    (Searched \/ Timelined) =>
        \A i, j \in 1..Len(ret.val) : i # j => Triple(ret.val[i]) # Triple(ret.val[j])

\* the store returned the same segment twice, with others, and the search kept
\* more than one entry
C13_Witness ==
    /\ Searched
    /\ Len(ret.val) >= 2
    /\ \E i, j \in 1..Len(ret.results) :
        /\ i < j
        /\ segment_key(ret.results[i]) = segment_key(ret.results[j])
        /\ Passes(ret.query, ret.results[i])
        /\ Passes(ret.query, ret.results[j])

\* the conditions a raw hit has to meet to appear in the output of a search
Admissible(query, d) ==
    /\ d.segment_type = "video_segment"
    /\ query.video_ids.given => d.video_id \in Elems(query.video_ids.v)
    /\ query.time_range.given =>
            (query.time_range.lo <= d.start_time /\ d.start_time <= query.time_range.hi)
    /\ query.entity_filter.given =>
            Lower(query.entity_filter.s) \in {Lower(e) : e \in Elems(d.entities)}

\* C14: every entry of a search's output comes from a raw hit that is a video
\* segment, whose video id is in the allowlist if one is given, the empty one
\* included, whose start_time is in [lo, hi] if a time range is given, and whose
\* entities contain the entity filter, case ignored, if one is given.
C14_OutputMeetsEveryFilter ==
    Searched =>
        \A n \in 1..Len(ret.val) :
            \E i \in 1..Len(ret.results) :
                /\ TemporalSearchResult(ret.results[i]) = ret.val[n]
                /\ Admissible(ret.query, ret.results[i])

\* the raw hits that pass the filters and are the first with their triple
Kept(query, results) ==
    {i \in 1..Len(results) :
        /\ Passes(query, results[i])
        /\ \A j \in 1..(i - 1) :
            Passes(query, results[j]) => segment_key(results[j]) # segment_key(results[i])}

\* the n-th of a set of indexes, in ascending order
Nth(S, n) == CHOOSE i \in S : Cardinality({j \in S : j <= i}) = n

\* C15: the output of a search is the first max_results of the raw hits that
\* pass the filters, each triple's first occurrence only, in arrival order.
C15_FirstOccurrencesInOrderCapped ==
    (Searched /\ ret.vectorstore = "ok") =>
        LET kept == Kept(ret.query, ret.results)
        IN /\ Len(ret.val) = Min(ret.query.max_results, Cardinality(kept))
           /\ Len(ret.val) <= ret.query.max_results
           /\ \A n \in 1..Len(ret.val) :
                ret.val[n] = TemporalSearchResult(ret.results[Nth(kept, n)])

\* more first occurrences than the cap, arriving in another order than that
\* of their start times
C15_Witness ==
    /\ Searched
    /\ ret.query.max_results >= 1
    /\ Len(ret.val) = ret.query.max_results
    /\ Cardinality(Kept(ret.query, ret.results)) > ret.query.max_results
    /\ ret.val[1].start_time > ret.val[Len(ret.val)].start_time

\* C16: get_video_timeline(v) returns only entries built from video-segment
\* hits of video v, in ascending order of start_time.
C16_TimelineOfOneVideoAscending ==
    Timelined =>
        /\ \A n \in 1..Len(ret.val) :
            \E i \in 1..Len(ret.results) :
                /\ TemporalSearchResult(ret.results[i]) = ret.val[n]
                /\ ret.results[i].segment_type = "video_segment"
                /\ ret.results[i].video_id = ret.video_id
        /\ \A m, n \in 1..Len(ret.val) :
            m < n => ret.val[m].start_time <= ret.val[n].start_time

\* the store returned a later segment of the video before an earlier one, and
\* a hit that is not a segment of the video
C16_Witness ==
    /\ Timelined
    /\ Len(ret.val) >= 2
    /\ \E i, j \in 1..Len(ret.results) :
        /\ i < j
        /\ ret.results[i].video_id = ret.video_id
        /\ ret.results[j].video_id = ret.video_id
        /\ ret.results[i].segment_type = "video_segment"
        /\ ret.results[j].segment_type = "video_segment"
        /\ ret.results[i].start_time > ret.results[j].start_time
    /\ \E i \in 1..Len(ret.results) :
        \/ ret.results[i].video_id # ret.video_id
        \/ ret.results[i].segment_type # "video_segment"

\* C17: search_entities and get_video_timeline raise nothing, and return the
\* empty sequence when the store is unavailable, when its search raises, and
\* when no stored segment matches.
C17_EmptyNotError ==
    (Searched \/ Timelined) =>
        /\ ~ret.raised
        /\ ret.vectorstore # "ok" => ret.val = <<>>
        /\ (Searched /\ \A i \in 1..Len(ret.results) : ~Passes(ret.query, ret.results[i]))
                => ret.val = <<>>
        /\ (Timelined /\ \A i \in 1..Len(ret.results) :
                            ~(/\ ret.results[i].segment_type = "video_segment"
                              /\ ret.results[i].video_id = ret.video_id))
                => ret.val = <<>>

\* a search on a store whose search raises
C17_Witness ==
    /\ Searched
    /\ ret.vectorstore = "raises"
    /\ ret.val = <<>>
    /\ ~ret.raised

\* ------------------------------------------------------------- segmentation
\* ingest/youtube.py, _process_segments. Times are whole seconds; a text is the
\* sequence of its pieces, the empty text the empty sequence.

\* segment_duration = 30.0
segment_duration == 30

\* entries start on the quarters of a minute
Quarter == 15

EntryStarts == {Quarter * q : q \in 0..MaxQuarter}
EntryTexts == {<<>>, <<"a">>}

\* one entry of YouTubeTranscriptApi.get_transcript
Entries == [start : EntryStarts, duration : 0..MaxDuration, text : EntryTexts]

\* transcripts in timestamp order
RECURSIVE TranscriptsUpTo(_)
TranscriptsUpTo(n) ==
    IF n = 0 THEN {<<>>}
    ELSE LET shorter == TranscriptsUpTo(n - 1)
             longer == {Append(l, e) : l \in {x \in shorter : Len(x) = n - 1},
                                       e \in Entries}
         IN shorter \cup
            {t \in longer : n = 1 \/ t[n - 1].start <= t[n].start}

Transcripts == TranscriptsUpTo(MaxEntries)

\* self._create_segment(start_time, end_time, text, video_id)
VideoSegment(start_time, end_time, text) ==
    [start_time |-> start_time, end_time |-> end_time, text |-> text]

\* before the loop: segments = [], current_segment_start = 0.0,
\* current_segment_text = ""
LoopStart ==
    [segments |-> <<>>, current_segment_start |-> 0, current_segment_text |-> <<>>]

\* the loop's turn with `current_segment_text += text`
LoopTurn_plain_append(st, entry) ==
    IF entry.start >= st.current_segment_start + segment_duration
    THEN [segments |->
            IF st.current_segment_text # <<>>
            THEN Append(st.segments,
                        VideoSegment(st.current_segment_start, entry.start,
                                     st.current_segment_text))
            ELSE st.segments,
          current_segment_start |-> entry.start,
          current_segment_text |-> entry.text]
    ELSE [st EXCEPT !.current_segment_text = @ \o entry.text]

\* one turn of `for i, entry in enumerate(transcript)`
LoopTurn(st, entry) ==
    IF entry.start >= st.current_segment_start + segment_duration
    THEN [segments |->
            \* if current_segment_text: segments.append(...)
            IF st.current_segment_text # <<>>
            THEN Append(st.segments,
                        VideoSegment(st.current_segment_start, entry.start,
                                     st.current_segment_text))
            ELSE st.segments,
          current_segment_start |-> entry.start,
          current_segment_text |-> entry.text]
    ELSE \* current_segment_text += " " + text
         [st EXCEPT !.current_segment_text = @ \o <<" ">> \o entry.text]

RECURSIVE Loop(_, _)
Loop(st, transcript) ==
    IF transcript = <<>> THEN st
    ELSE Loop(LoopTurn(st, Head(transcript)), Tail(transcript))

\* YouTubeVideoSource._process_segments
process_segments(transcript) ==
    LET st == Loop(LoopStart, transcript)
    IN \* if current_segment_text: the final segment
       IF st.current_segment_text # <<>>
       THEN LET final_end_time ==
                    transcript[Len(transcript)].start + transcript[Len(transcript)].duration
            IN Append(st.segments,
                      VideoSegment(st.current_segment_start, final_end_time,
                                   st.current_segment_text))
       ELSE st.segments

\* ------------------------------------------------------------- SpecSegments
\* One call of _process_segments on any transcript in timestamp order.
ProcessSegments ==
    /\ ret.op = "init"
    /\ \E transcript \in Transcripts :
        ret' = [op |-> "_process_segments", transcript |-> transcript,
                val |-> process_segments(transcript)]
    /\ UNCHANGED <<tasks, nextId, now, jobs, lock, req>>

NextSegments == ProcessSegments

SpecSegments == Init /\ [][NextSegments]_vars

\* ------------------------------------------------------ claims, SpecSegments
Segmented == ret.op = "_process_segments"

\* D = the last entry's start + duration
SpanEnd(transcript) ==
    transcript[Len(transcript)].start + transcript[Len(transcript)].duration

\* C18: for a transcript whose entries span [0, D) the segments cover [0, D)
\* without a gap: the first starts at 0, the last ends at D, each starts no
\* later than the one before it ends, and start times strictly increase.
C18_SegmentsCoverTranscript ==
    (Segmented /\ ret.transcript # <<>> /\ ret.transcript[1].start = 0) =>
        /\ ret.val # <<>>
        /\ ret.val[1].start_time = 0
        /\ ret.val[Len(ret.val)].end_time = SpanEnd(ret.transcript)
        /\ \A i \in 1..(Len(ret.val) - 1) :
            /\ ret.val[i + 1].start_time <= ret.val[i].end_time
            /\ ret.val[i].start_time < ret.val[i + 1].start_time

\* C19: of two consecutive segments the later starts where the earlier ends,
\* whatever the texts of the entries, the empty text included.
C19_ConsecutiveSegmentsMeet ==
    Segmented =>
        \A i \in 1..(Len(ret.val) - 1) :
            ret.val[i + 1].start_time = ret.val[i].end_time

\* C20: every segment has start_time < end_time, the final one included, for
\* entries with durations of 0 or more.
C20_SegmentsAreNonEmptyIntervals ==
    Segmented =>
        \A i \in 1..Len(ret.val) : ret.val[i].start_time < ret.val[i].end_time

\* C21: an empty transcript gives no segment, and a transcript that is not
\* empty and whose entries all start before the window length gives exactly
\* one segment.
C21_NoneForEmptyOneForShort ==
    Segmented =>
        /\ ret.transcript = <<>> => ret.val = <<>>
        /\ (/\ ret.transcript # <<>>
            /\ \A i \in 1..Len(ret.transcript) :
                    ret.transcript[i].start < segment_duration)
                => Len(ret.val) = 1

\* several entries inside the first window, all with empty text, one segment
C21_Witness ==
    /\ Segmented
    /\ Len(ret.transcript) >= 2
    /\ \A i \in 1..Len(ret.transcript) :
        /\ ret.transcript[i].start < segment_duration
        /\ ret.transcript[i].text = <<>>
    /\ Len(ret.val) = 1

\* the start of the window the window rule puts the i-th entry in: the first
\* window starts at 0, and an entry that starts a window length or more after
\* its predecessor's window start opens the next one
RECURSIVE WindowOf(_, _)
WindowOf(transcript, i) ==
    IF i = 0 THEN 0
    ELSE LET w == WindowOf(transcript, i - 1)
         IN IF transcript[i].start >= w + segment_duration
            THEN transcript[i].start
            ELSE w

\* the windows that hold an entry
Windows(transcript) == {WindowOf(transcript, i) : i \in 1..Len(transcript)}

\* C22: the segments are the windows of the window rule: each starts where
\* its window starts, ends where the next window starts, and the last one
\* ends at the last entry's start + duration.
C22_BoundariesFollowWindowRule ==
    Segmented =>
        LET ws == Windows(ret.transcript)
        IN /\ Len(ret.val) = Cardinality(ws)
           /\ \A j \in 1..Len(ret.val) :
                /\ ret.val[j].start_time = Nth(ws, j)
                /\ ret.val[j].end_time =
                        IF j < Cardinality(ws) THEN Nth(ws, j + 1)
                        ELSE SpanEnd(ret.transcript)

\* the texts of the entries of window w among the first n, in transcript order
RECURSIVE TextsOf(_, _, _)
TextsOf(transcript, w, n) ==
    IF n = 0 THEN <<>>
    ELSE LET before == TextsOf(transcript, w, n - 1)
         IN IF WindowOf(transcript, n) = w
            THEN Append(before, transcript[n].text)
            ELSE before

\* texts joined by a single space
RECURSIVE JoinBySpace(_)
JoinBySpace(texts) ==
    IF texts = <<>> THEN <<>>
    ELSE IF Len(texts) = 1 THEN texts[1]
    ELSE JoinBySpace(SubSeq(texts, 1, Len(texts) - 1)) \o <<" ">> \o texts[Len(texts)]

\* C23: there is one segment for each window that holds an entry, and its text
\* is the texts of the window's entries, in transcript order, joined by a
\* single space.
C23_TextIsEntriesJoinedBySpace ==
    Segmented =>
        LET ws == Windows(ret.transcript)
        IN /\ Len(ret.val) = Cardinality(ws)
           /\ \A j \in 1..Len(ret.val) :
                ret.val[j].text =
                    JoinBySpace(TextsOf(ret.transcript, ret.val[j].start_time,
                                        Len(ret.transcript)))

\* -------------------------------------------------------- segment creation
\* ingest/youtube.py, _create_segment, and kg/entity_extraction.py. The
\* collaborators of one segment: the entity extractor, the embedding model and
\* the vector store; `failure` names the one that fails, for the segments whose
\* positions are in `at`.
Failures == [kind : {"none", "extract", "embed", "store"}, at : SUBSET (1..MaxEntries)]
NoFailure == [kind |-> "none", at |-> {}]

Fails(failure, kind, j) == failure.kind = kind /\ j \in failure.at

\* What YouTubeVideoSource.__init__ got. nlp: whether spacy.load gave a model
\* (self.nlp is None otherwise). vectorstore: "None", get_vectorstore() gave
\* None; "no embeddings", a VectorStore whose embeddings is None, as it is with
\* no VECTORDB_URI; "embeddings", a VectorStore with an embedding model.
Collaborators == [nlp : BOOLEAN, vectorstore : {"None", "no embeddings", "embeddings"}]

\* doc.ents of the model's texts: the piece "a" names an entity
Ents(text) == IF "a" \in Elems(text) THEN <<"a">> ELSE <<>>

\* extract_entities letting the exception of self.nlp(text) through
extract_entities_unguarded(text, nlp, fails) ==
    IF ~nlp THEN [val |-> <<>>, raised |-> FALSE]
    ELSE IF fails THEN [val |-> <<>>, raised |-> TRUE]
    ELSE [val |-> Ents(text), raised |-> FALSE]

\* SpaCyEntityExtractor.extract_entities: `if not self.nlp: return []`, and
\* except Exception: return []
extract_entities(text, nlp, fails) ==
    IF ~nlp THEN [val |-> <<>>, raised |-> FALSE]
    ELSE IF fails THEN [val |-> <<>>, raised |-> FALSE]
    ELSE [val |-> Ents(text), raised |-> FALSE]

\* YouTubeVideoSource._create_segment for the j-th segment
create_segment(seg, with, failure, j) ==
    LET entities == extract_entities(seg.text, with.nlp, Fails(failure, "extract", j))
        \* if self.vectorstore and self.vectorstore.embeddings: embed_query
        \* inside try / except, embedding stays None
        embedding == IF with.vectorstore = "embeddings" /\ ~Fails(failure, "embed", j)
                     THEN "vector" ELSE "None"
        \* if self.vectorstore: store_document inside try / except
        stored == with.vectorstore # "None" /\ ~Fails(failure, "store", j)
    IN [segment |-> [start_time |-> seg.start_time, end_time |-> seg.end_time,
                     text |-> seg.text, entities |-> entities.val,
                     embedding |-> embedding],
        stored |-> stored,
        raised |-> entities.raised]

\* _process_segments with its calls of _create_segment: an exception of one
\* of them leaves the function
process_segments_creating(transcript, with, failure) ==
    LET segs == process_segments(transcript)
        created == [j \in 1..Len(segs) |-> create_segment(segs[j], with, failure, j)]
    IN IF \E j \in 1..Len(segs) : created[j].raised
       THEN [val |-> <<>>, stored |-> {}, raised |-> TRUE]
       ELSE [val |-> [j \in 1..Len(segs) |-> created[j].segment],
             stored |-> {j \in 1..Len(segs) : created[j].stored},
             raised |-> FALSE]

\* --------------------------------------------------------------- SpecCreate
\* One call of _process_segments with a collaborator failing for some segments.
CreateSegments ==
    /\ ret.op = "init"
    /\ \E transcript \in Transcripts, with \in Collaborators, failure \in Failures :
        LET r == process_segments_creating(transcript, with, failure)
        IN ret' = [op |-> "_create_segment", transcript |-> transcript,
                   with |-> with, failure |-> failure, val |-> r.val,
                   stored |-> r.stored, raised |-> r.raised]
    /\ UNCHANGED <<tasks, nextId, now, jobs, lock, req>>

NextCreate == CreateSegments

SpecCreate == Init /\ [][NextCreate]_vars

\* -------------------------------------------------------- claims, SpecCreate
Created == ret.op = "_create_segment"

\* C24: a failing entity extractor, embedding model or vector-store write
\* never aborts the segmentation: nothing is raised, the segments are as many
\* and have the boundaries they have when nothing fails, a segment whose
\* extraction failed has no entities and one whose embedding failed has none.
C24_CollaboratorFailuresAreNotFatal ==
    Created =>
        LET plain == process_segments_creating(ret.transcript, ret.with, NoFailure).val
        IN /\ ~ret.raised
           /\ Len(ret.val) = Len(plain)
           /\ \A j \in 1..Len(ret.val) :
                /\ ret.val[j].start_time = plain[j].start_time
                /\ ret.val[j].end_time = plain[j].end_time
                /\ ret.val[j].text = plain[j].text
                /\ Fails(ret.failure, "extract", j) => ret.val[j].entities = <<>>
                /\ Fails(ret.failure, "embed", j) => ret.val[j].embedding = "None"
                /\ ~Fails(ret.failure, "extract", j) =>
                        ret.val[j].entities = plain[j].entities
                /\ ~Fails(ret.failure, "embed", j) =>
                        ret.val[j].embedding = plain[j].embedding

\* the extractor failed on the first of two segments, whose text names an entity
C24_Witness ==
    /\ Created
    /\ ret.with = [nlp |-> TRUE, vectorstore |-> "embeddings"]
    /\ ret.failure.kind = "extract"
    /\ 1 \in ret.failure.at
    /\ Len(ret.val) = 2
    /\ "a" \in Elems(ret.val[1].text)
    /\ ret.val[1].entities = <<>>

\* ------------------------------------------------------------- POST /ingest
\* api/routers/ingest.py, ingest and run_ingest_worker.

\* an optional list of an IngestRequest: None, or a list of items
NoList == [given |-> FALSE, items |-> <<>>]
List(items) == [given |-> TRUE, items |-> items]
SourceLists == {NoList, List(<<>>), List(<<"x">>), List(<<"x", "y">>)}

IngestRequest == [videos : SourceLists, twitter : SourceLists, ig : SourceLists]

\* `if req.videos:` is false for None and for the empty list
NonEmpty(list) == list.given /\ Len(list.items) > 0

\* cmd += [flag] + list
Flagged(flag, list) == <<flag>> \o list.items

\* the command with a flag for every list that is not None
ingest_cmd_flag_if_given(request) ==
    <<"python", "-m", "src.worker.ingest_worker">>
        \o (IF request.videos.given THEN Flagged("--videos", request.videos) ELSE <<>>)
        \o (IF request.twitter.given THEN Flagged("--twitter", request.twitter) ELSE <<>>)
        \o (IF request.ig.given THEN Flagged("--ig", request.ig) ELSE <<>>)

\* cmd as ingest builds it; "python" is sys.executable
ingest_cmd(request) ==
    <<"python", "-m", "src.worker.ingest_worker">>
        \o (IF NonEmpty(request.videos) THEN Flagged("--videos", request.videos) ELSE <<>>)
        \o (IF NonEmpty(request.twitter) THEN Flagged("--twitter", request.twitter) ELSE <<>>)
        \o (IF NonEmpty(request.ig) THEN Flagged("--ig", request.ig) ELSE <<>>)

\* what subprocess.run(cmd, ...) does: returncode 0, another returncode, or
\* an exception
RunOutcomes == {"zero", "nonzero", "raises"}

\* run_ingest_worker(cmd, task_id) up to subprocess.run: start_task and the
\* first update_progress
run_ingest_worker_starts(ts, task_id, t) ==
    update_progress(start_task(ts, task_id, t).tasks, task_id,
                    <<"Starting ingest worker...">>).tasks

\* run_ingest_worker from the return of subprocess.run: the registry after it
run_ingest_worker(ts, task_id, outcome, t) ==
    LET error_msg == IF outcome = "nonzero"
                     THEN <<"Task failed with return code", "returncode", "stderr">>
                     ELSE <<"Task execution failed:", "e">>
    IN CASE outcome = "zero" ->
              complete_task(
                  update_progress(ts, task_id,
                                  <<"Task completed successfully">>).tasks,
                  task_id, TRUE, NoText, t).tasks
         [] outcome = "nonzero" ->
              complete_task(
                  update_progress(ts, task_id,
                                  <<"Task failed:">> \o error_msg).tasks,
                  task_id, FALSE, error_msg, t).tasks
         [] outcome = "raises" ->
              complete_task(
                  update_progress(ts, task_id,
                                  <<"Task execution error:">> \o error_msg).tasks,
                  task_id, FALSE, error_msg, t).tasks

\* --------------------------------------------------------------- SpecIngest
\* The handler and the background executions it queues. run_ingest_worker is
\* a coroutine without a suspension point: subprocess.run blocks the event
\* loop, so no handler runs while the subprocess does, but the clock moves.

\* POST /ingest
Ingest ==
    /\ nextId <= MaxTasks
    /\ \A j \in 1..Len(jobs) : jobs[j].pc # "subprocess"
    /\ \E request \in IngestRequest :
        LET cmd == ingest_cmd(request)
            metadata == [videos |-> request.videos, twitter |-> request.twitter,
                         ig |-> request.ig, request_type |-> "ingest"]
            r == add_task(tasks, nextId, cmd, metadata, now)
        IN /\ tasks' = r.tasks
           /\ jobs' = Append(jobs, [task_id |-> r.val, cmd |-> cmd, pc |-> "queued"])
           /\ ret' = [op |-> "ingest", request |-> request, status |-> "queued",
                      task_id |-> r.val, cmd |-> cmd]
    /\ nextId' = nextId + 1
    /\ UNCHANGED <<now, lock, req>>

\* the background task of one POST /ingest, up to its subprocess.run. Each
\* request has its own BackgroundTasks: the queued tasks of different requests
\* start in any order.
RunIngestWorker ==
    \E j \in 1..Len(jobs) :
        /\ jobs[j].pc = "queued"
        /\ \A i \in 1..Len(jobs) : jobs[i].pc # "subprocess"
        /\ tasks' = run_ingest_worker_starts(tasks, jobs[j].task_id, now)
        /\ jobs' = [jobs EXCEPT ![j].pc = "subprocess"]
        /\ ret' = [op |-> "run_ingest_worker", task_id |-> jobs[j].task_id]
        /\ UNCHANGED <<nextId, now, lock, req>>

\* subprocess.run returns or raises, and the background task goes to its end
SubprocessRun ==
    \E j \in 1..Len(jobs), outcome \in RunOutcomes :
        /\ jobs[j].pc = "subprocess"
        /\ tasks' = run_ingest_worker(tasks, jobs[j].task_id, outcome, now)
        /\ jobs' = [jobs EXCEPT ![j].pc = "returned"]
        /\ ret' = [op |-> "run_ingest_worker", task_id |-> jobs[j].task_id]
        /\ UNCHANGED <<nextId, now, lock, req>>

NextIngest ==
    \/ Tick
    \/ Ingest
    \/ RunIngestWorker
    \/ SubprocessRun

SpecIngest == Init /\ [][NextIngest]_vars

\* -------------------------------------------------------- claims, SpecIngest
\* the flag and the items the claim asks for one list
Asked(flag, list) ==
    IF list.given /\ list.items # <<>> THEN <<flag>> \o list.items ELSE <<>>

IngestAnswered == ret' # ret /\ ret'.op = "ingest"

\* C25: POST /ingest answers "queued" with a command that runs
\* src.worker.ingest_worker followed by --videos, --twitter and --ig, each with
\* its list's items in order, exactly for the lists that are present and not
\* empty; it adds exactly one task to the registry, in status Pending, and
\* returns the id of that task.
C25_IngestQueuesOneTask ==
    [][IngestAnswered =>
        /\ ret'.status = "queued"
        /\ SubSeq(ret'.cmd, 2, 3) = <<"-m", "src.worker.ingest_worker">>
        /\ SubSeq(ret'.cmd, 4, Len(ret'.cmd)) =
                Asked("--videos", ret'.request.videos)
                    \o Asked("--twitter", ret'.request.twitter)
                    \o Asked("--ig", ret'.request.ig)
        /\ Len(tasks') = Len(tasks) + 1
        /\ SubSeq(tasks', 1, Len(tasks)) = tasks
        /\ tasks'[Len(tasks')].status = PENDING
        /\ tasks'[Len(tasks')].task_id = ret'.task_id
        /\ tasks'[Len(tasks')].command = ret'.cmd
        /\ ret'.task_id \notin Ids(tasks)]_vars

\* a request with videos, an empty twitter list and no ig list was answered
C25_Witness ==
    /\ ret.op = "ingest"
    /\ ret.request.videos = List(<<"x", "y">>)
    /\ ret.request.twitter = List(<<>>)
    /\ ret.request.ig = NoList
    /\ ret.cmd = <<"python", "-m", "src.worker.ingest_worker", "--videos", "x", "y">>
    /\ Len(tasks) = 2

\* ------------------------------------------------- claims on Spec, timestamps
\* C26: started_at and completed_at are assigned at most once: a timestamp
\* that is set on a record is the same after every later registry operation,
\* as long as the record is in the registry.
C26_TimestampsAssignedOnce ==
    [][\A id \in Ids(tasks) \cap Ids(tasks') :
          /\ Rec(tasks, id).started_at # NoTime =>
                Rec(tasks', id).started_at = Rec(tasks, id).started_at
          /\ Rec(tasks, id).completed_at # NoTime =>
                Rec(tasks', id).completed_at = Rec(tasks, id).completed_at]_vars

\* C27: a record carries an error_message only when its status is Failed.
C27_ErrorMessageOnlyWhenFailed ==
    \A i \in 1..Len(tasks) :
        tasks[i].error_message # NoText => tasks[i].status = FAILED

\* ------------------------------------------- claims on SpecBatch, progress
\* job j makes its per-video progress update in this step
ProgressStep(j) ==
    /\ j \in 1..Len(jobs)
    /\ jobs[j].pc = "progress"
    /\ jobs'[j].pc = "fetch"

\* C28: a background execution updates the progress once for each of its N
\* remaining videos, in the order submitted: the update made for the video at
\* position i of the list reads "processing video i/N: id" with that video's
\* id, and when the loop is over every position has had its update.
C28_ProgressOncePerVideo ==
    [][\A j \in 1..Len(jobs) :
          LET job == jobs[j]
              n == Len(job.video_ids)
          IN /\ (ProgressStep(j) /\ Has(tasks', job.task_id)) =>
                    Rec(tasks', job.task_id).progress =
                        ProgressMsg(job.idx, n, job.video_ids[job.idx])
             /\ (job.pc = "fetch" /\ jobs'[j].pc = "finish") =>
                    job.yielded = n]_vars

\* ----------------------------------------- claims on SpecThreads, polling
\* a per-video progress text of job j
PerVideoTexts(j) ==
    {ProgressMsg(i, Len(jobs[j].video_ids), jobs[j].video_ids[k]) :
        i \in 1..Len(jobs[j].video_ids), k \in 1..Len(jobs[j].video_ids)}

\* GET /tasks/{task_id} answers in this step, with status Running and a
\* per-video progress text of job j
PollAnswersRunning(j) ==
    /\ req.pc = "read_progress"
    /\ req'.pc = "idle"
    /\ ret'.task_id = jobs[j].task_id
    /\ ret'.status = RUNNING
    /\ ret'.progress \in PerVideoTexts(j)

\* C29: a concurrent poller can observe a batch in progress: a poll that
\* answers Running with a per-video progress text (the witness: there is one,
\* while the execution is at its loop) has read the task between its
\* start_task and its complete_task: the record is started, Running and not
\* completed, and the text is that of a video the execution has got.
C29_PollerCanObserveRunning ==
    [][\A j \in 1..Len(jobs) :
          PollAnswersRunning(j) =>
            LET r == Rec(tasks, jobs[j].task_id)
            IN /\ r.status = RUNNING
               /\ r.started_at # NoTime
               /\ r.completed_at = NoTime
               /\ ret'.completed_at = NoTime
               /\ ret'.progress \in
                    {ProgressMsg(i, Len(jobs[j].video_ids), jobs[j].video_ids[k]) :
                        i \in 1..jobs[j].yielded, k \in 1..jobs[j].idx}]_vars

\* a poll answered Running with the per-video progress text while the
\* execution, of a request with two video ids, was at its loop
C29_Witness ==
    /\ ret.op = "get_task_status"
    /\ ret.code = 200
    /\ ret.status = RUNNING
    /\ \E j \in 1..Len(jobs) :
        /\ jobs[j].task_id = ret.task_id
        /\ jobs[j].pc = "fetch"
        /\ jobs[j].exc = "none"
        /\ ret.progress \in PerVideoTexts(j)

\* ------------------------------------------------------------- SpecTimeline
\* get_video_timeline on a store that holds many documents: `padding`
\* documents of another kind, stored first, and then the documents of `last`.
Padding(n) == [i \in 1..n |-> Document("document", "a", 0, 1, <<"Bob", "Ada">>)]

\* InMemoryVectorStore.documents after these store_document calls
Stored(padding, last) == Padding(padding) \o last

GetVideoTimelineOfLargeStore ==
    /\ ret.op = "init"
    /\ \E video_id \in VideoIds, padding \in {0, 1, TimelineK - 1, TimelineK},
          last \in DocumentsUpTo(1) :
        LET r == get_video_timeline(video_id, "ok", Stored(padding, last))
        IN ret' = [op |-> "get_video_timeline", video_id |-> video_id,
                   vectorstore |-> "ok", padding |-> padding, last |-> last,
                   val |-> r.val, raised |-> r.raised]
    /\ UNCHANGED <<tasks, nextId, now, jobs, lock, req>>

NextTimeline == GetVideoTimelineOfLargeStore

SpecTimeline == Init /\ [][NextTimeline]_vars

\* ------------------------------------------------------ claims, SpecTimeline
\* C30: get_video_timeline(v) is complete: for every (start_time, end_time)
\* pair of a video_segment document of video v in the store, the timeline has
\* exactly one entry with that pair, however many documents the store holds.
C30_TimelineIsComplete ==
    (ret.op = "get_video_timeline" /\ ret.vectorstore = "ok") =>
        LET documents == Stored(ret.padding, ret.last)
        IN \A i \in 1..Len(documents) :
              (documents[i].segment_type = "video_segment"
                    /\ documents[i].video_id = ret.video_id)
                => Cardinality({n \in 1..Len(ret.val) :
                        /\ ret.val[n].start_time = documents[i].start_time
                        /\ ret.val[n].end_time = documents[i].end_time}) = 1
====
